---- MODULE Spec2Model ----
(***************************************************************************)
(* A model of the Nori scene exporter (src/ext/plugin/io_nori.py) and of   *)
(* the test runner (src/run_tests.py).                                     *)
(*                                                                         *)
(* Spec       : NoriWritter.write over scenes of up to NObj objects.       *)
(* SpecMesh   : NoriWritter.write over scenes holding one mesh object,     *)
(*              with the mesh drawn from every mesh of up to MaxFaces      *)
(*              faces and MaxSlots material slots.                         *)
(* SpecRunner : run_tests.py, test_warps_and_scenes and __main__.          *)
(***************************************************************************)
EXTENDS Integers, Sequences, FiniteSets, TLC

VARIABLES
    objects,      \* context.scene.objects: the host scene, read-only
    exportLight,  \* the export_light option
    pc,           \* position of the exporter inside NoriWritter.write
    doc,          \* children of the <scene> element, in append order
    log,          \* what verbose() has printed
    disk,         \* the files under workingDir/meshes: path -> content
    openHandles,  \* file objects on mesh files that are open
    pending,      \* mesh objects write_mesh has still to hand to write_mesh_objs
    last,         \* the latest call of write_mesh_objs: its mesh and what it did
    error,        \* the exception that ended the export, "" when none
    written,      \* the document written to filepath: <<>> or <<doc>>
    rpc,          \* position of the test runner
    buildHere,    \* whether ./nori is a file (find_build_directory)
    rets,         \* exit codes subprocess.call has returned, in call order
    calls,        \* argv of each sub-invocation made, in call order
    passed,       \* test_warps_and_scenes: passed
    failed,       \* test_warps_and_scenes: failed
    exitCode      \* exit code of run_tests.py, -1 while it runs

vars == <<objects, exportLight, pc, doc, log, disk, openHandles,
          pending, last, error, written,
          rpc, buildHere, rets, calls, passed, failed, exitCode>>

exportVars == <<objects, exportLight, pc, doc, log, disk, openHandles,
                pending, last, error, written>>

runnerVars == <<rpc, buildHere, rets, calls, passed, failed, exitCode>>

----------------------------------------------------------------------------
(* Bounds of the model. *)

\* objects in a scene of Spec
NObj == 3

\* faces of the mesh of SpecMesh
MaxFaces == 2

\* material slots of the mesh of SpecMesh
MaxSlots == 2

----------------------------------------------------------------------------
(* Generic helpers. *)

Range(s) == {s[i] : i \in 1..Len(s)}

SeqsUpTo(S, n) == UNION {[1..k -> S] : k \in 0..n}

RECURSIVE Flatten(_)
Flatten(ss) == IF ss = <<>> THEN <<>> ELSE Head(ss) \o Flatten(Tail(ss))

Reverse(s) == [i \in 1..Len(s) |-> s[Len(s) + 1 - i]]

----------------------------------------------------------------------------
(* Vectors: mathutils.Vector with integer coordinates. *)

Sub(a, b) == <<a[1] - b[1], a[2] - b[2], a[3] - b[3]>>

Cross(a, b) == <<a[2] * b[3] - a[3] * b[2],
                 a[3] * b[1] - a[1] * b[3],
                 a[1] * b[2] - a[2] * b[1]>>

Dot(a, b) == a[1] * b[1] + a[2] * b[2] + a[3] * b[3]

Sgn(x) == IF x > 0 THEN 1 ELSE IF x < 0 THEN -1 ELSE 0

\* Vector.normalize(): the vector scaled to unit length, the zero vector left
\* as it is.  Every vertex of VertexCo lies in the plane z = 0, so every cross
\* product of two edges is parallel to the z axis and its unit vector is the
\* vector of the signs of its coordinates.
Normalize(v) == <<Sgn(v[1]), Sgn(v[2]), Sgn(v[3])>>

----------------------------------------------------------------------------
(* The host's data: meshes, materials, scene objects. *)

\* prevMesh.vertices[i].co for the 0-based vertex index i.  Vertices 0..3 are
\* a concave quadrilateral (vertex 1 is the reflex vertex) that winds
\* counter-clockwise seen from +z.
VertexCo == << <<0, 0, 0>>, <<1, 1, 0>>, <<2, 0, 0>>, <<1, 3, 0>>, <<3, 3, 0>> >>

Co(i) == VertexCo[i + 1]

Up == <<0, 0, 1>>

Down == <<0, 0, -1>>

\* A face: poly.vertices, poly.material_index, poly.normal.
Poly(vertices, material_index, normal) ==
    [vertices |-> vertices, material_index |-> material_index, normal |-> normal]

\* poly.material_index of the faces a mesh may have
MaterialIndices == {0, 1}

\* The faces a mesh may have, each with the normal the host computes from its
\* winding: the triangle 0,1,2 (clockwise seen from +z) and its reverse, the
\* quadrilateral 0,1,2,3 (counter-clockwise) and the pentagon 0,1,2,3,4.
Polys ==
    {Poly(<<0, 1, 2>>, k, Down) : k \in MaterialIndices}
    \cup {Poly(<<2, 1, 0>>, k, Up) : k \in MaterialIndices}
    \cup {Poly(<<0, 1, 2, 3>>, k, Up) : k \in MaterialIndices}
    \cup {Poly(<<0, 1, 2, 3, 4>>, k, Down) : k \in MaterialIndices}

\* slot.name is the name of the slot's material, "" for a slot that holds none.
SlotNames == {"", "m", "n"}

\* slot.material.raytrace_mirror.use of the material called name
MirrorUse(name) == name = "n"

\* A mesh as write_mesh_objs reads it: mesh.material_slots (the slot names),
\* prevMesh.polygons, prevMesh.polygons[0].use_smooth (when there is a face)
\* and prevMesh.uv_layers.active != None.
Meshes(maxFaces, maxSlots) ==
    [slots : SeqsUpTo(SlotNames, maxSlots),
     polygons : SeqsUpTo(Polys, maxFaces),
     use_smooth : BOOLEAN,
     uv : BOOLEAN]

NoMesh == [slots |-> <<>>, polygons |-> <<>>, use_smooth |-> FALSE, uv |-> FALSE]

----------------------------------------------------------------------------
(* NoriWritter.write_face *)

\* Triangulate with the second triangle of a quadrilateral cut off the wrong
\* corner: (v1, v2, v3) for (v2, v3, v0).
TriangulateWrongCorner(vertices) ==
    IF Len(vertices) = 4
    THEN [raised |-> FALSE,
          tris |-> << <<vertices[1], vertices[2], vertices[3]>>,
                      <<vertices[2], vertices[3], vertices[4]>> >>]
    ELSE IF Len(vertices) = 3
    THEN [raised |-> FALSE, tris |-> <<vertices>>]
    ELSE [raised |-> TRUE, tris |-> <<>>]

\* The triangles of one face (lines 185-192): [raised, tris].
Triangulate(vertices) ==
    IF Len(vertices) = 4
    THEN [raised |-> FALSE,
          tris |-> << <<vertices[1], vertices[2], vertices[3]>>,
                      <<vertices[3], vertices[4], vertices[1]>> >>]
    ELSE IF Len(vertices) = 3
    THEN [raised |-> FALSE, tris |-> <<vertices>>]
    ELSE [raised |-> TRUE, tris |-> <<>>]

\* The normal of the triangle vert as lines 200-203 compute it.
ComputedNormal(vert) ==
    LET ac == Sub(Co(vert[3]), Co(vert[1]))
        ab == Sub(Co(vert[2]), Co(vert[1]))
    IN  Normalize(Cross(ab, ac))

\* NeedsFlip with the comparison of line 206 turned round.
NeedsFlipInverted(vert, normal) == Dot(ComputedNormal(vert), normal) > 0

\* The order check (lines 199-208).
NeedsFlip(vert, normal) == Dot(ComputedNormal(vert), normal) < 0

OrderCheck(vert, normal, exportNormal) ==
    IF (~exportNormal) /\ NeedsFlip(vert, normal)
    THEN <<vert[3], vert[2], vert[1]>>
    ELSE vert

\* The text written for one vertex of a face (lines 211-223), as the list of
\* its fields between slashes; 0 stands for an empty field.
VertexToken(idVert, exportUV, exportNormal) ==
    IF (~exportUV) /\ (~exportNormal)
    THEN <<idVert + 1>>
    ELSE <<idVert + 1>>
         \o (IF exportUV THEN <<idVert + 1>> ELSE <<0>>)
         \o (IF exportNormal THEN <<idVert + 1>> ELSE <<>>)

\* One "f" line: the tokens after the "f" (lines 195, 210-225).
FaceLine(vert, exportUV, exportNormal) ==
    [i \in 1..3 |-> VertexToken(vert[i], exportUV, exportNormal)]

\* Whether the loop body runs for poly (line 182).
FaceSelected(poly, idMat) == (idMat # -1) /\ (poly.material_index = idMat)

\* The lines one face adds to the file.
PolyLines(poly, exportUV, exportNormal) ==
    LET t == Triangulate(poly.vertices).tris
    IN  [k \in 1..Len(t) |->
            FaceLine(OrderCheck(t[k], poly.normal, exportNormal),
                     exportUV, exportNormal)]

\* write_face from the k-th face on: the lines written to fileObj in order
\* (lines), the face each line was written for (polys), the faces the loop
\* body ran for (visited), and whether the raise of line 192 ended the call.
\* The lines mine of face k, followed by what the rest of the loop does.
FaceThenRest(k, mine, rest) ==
    [raised |-> rest.raised,
     lines |-> mine \o rest.lines,
     polys |-> [n \in 1..Len(mine) |-> k] \o rest.polys,
     visited |-> <<k>> \o rest.visited]

RECURSIVE WriteFaceFrom(_, _, _, _, _)
WriteFaceFrom(polygons, k, exportUV, exportNormal, idMat) ==
    IF k > Len(polygons)
    THEN [raised |-> FALSE, lines |-> <<>>, polys |-> <<>>, visited |-> <<>>]
    ELSE IF ~FaceSelected(polygons[k], idMat)
    THEN WriteFaceFrom(polygons, k + 1, exportUV, exportNormal, idMat)
    ELSE IF Triangulate(polygons[k].vertices).raised
    THEN [raised |-> TRUE, lines |-> <<>>, polys |-> <<>>, visited |-> <<k>>]
    ELSE FaceThenRest(k, PolyLines(polygons[k], exportUV, exportNormal),
                      WriteFaceFrom(polygons, k + 1, exportUV, exportNormal, idMat))

write_face(polygons, exportUV, exportNormal, idMat) ==
    WriteFaceFrom(polygons, 1, exportUV, exportNormal, idMat)

----------------------------------------------------------------------------
(* The document and the mesh files. *)

\* A child of the <scene> element.  node stands for the matrix_world (or the
\* location) of the scene object the element was made from, 0 when it has none.
Element(tag, type, file, node, bsdf) ==
    [tag |-> tag, type |-> type, file |-> file, node |-> node, bsdf |-> bsdf]

\* __createMeshEntry followed by the appendChild of the bsdf element.
createMeshEntry(filename, node, bsdf) ==
    Element("mesh", "obj", "meshes/" \o filename, node, bsdf)

\* __createBSDFEntry for a slot that holds the material called name.
createBSDFEntry(name) ==
    IF MirrorUse(name) THEN "mirror" ELSE "diffuse:" \o name

\* The bsdf lines 261-262 attach to a mesh without material.
DefaultBSDF == "diffuse:0.75,0.75,0.75"

\* A line of a mesh file.  A "v", "vt" or "vn" line holds the formatted data of
\* element tokens[1][1] of mesh object mesh; an "f" line holds its vertex tokens.
Line(kind, mesh, tokens) == [kind |-> kind, mesh |-> mesh, tokens |-> tokens]

NumVertices == Len(VertexCo)

RECURSIVE NumLoops(_)
NumLoops(polygons) ==
    IF polygons = <<>> THEN 0
    ELSE Len(Head(polygons).vertices) + NumLoops(Tail(polygons))

\* Lines 242-252: the vertex, uv and normal lines of mesh object i.
BaseLines(i, mesh, exportUV, exportNormal) ==
    [k \in 1..NumVertices |-> Line("v", i, << <<k - 1>> >>)]
    \o (IF exportUV
        THEN [k \in 1..NumLoops(mesh.polygons) |-> Line("vt", i, << <<k - 1>> >>)]
        ELSE <<>>)
    \o (IF exportNormal
        THEN [k \in 1..NumVertices |-> Line("vn", i, << <<k - 1>> >>)]
        ELSE <<>>)

FLines(lines) == [k \in 1..Len(lines) |-> Line("f", 0, lines[k])]

----------------------------------------------------------------------------
(* File operations.  st is the state a call of write_mesh_objs threads      *)
(* through its statements: disk, open handles, the log of file operations   *)
(* (fs), what verbose printed (log), the elements made (elems), the calls   *)
(* of write_face (writes) and the exception raised (error).                 *)

Handle(i, n, path, mode) == [id |-> <<i, n>>, path |-> path, mode |-> mode]

Event(op, h) == [op |-> op, id |-> h.id, path |-> h.path, mode |-> h.mode]

NumOpens(fs) == Cardinality({k \in 1..Len(fs) : fs[k].op = "open"})

\* The handle the k-th open() after st of mesh object i's call returns.
NextHandle(st, i, k, path, mode) == Handle(i, NumOpens(st.fs) + k, path, mode)

\* open(path, mode): "w" creates the file or truncates it.
Open(st, h) ==
    [st EXCEPT !.open = @ \cup {h},
               !.fs = Append(@, Event("open", h)),
               !.disk = IF h.mode = "w"
                        THEN [q \in DOMAIN @ \cup {h.path} |->
                                 IF q = h.path THEN <<>> ELSE @[q]]
                        ELSE @]

\* fileObj.write for each of lines.
WriteLines(st, h, lines) ==
    [st EXCEPT !.disk = [@ EXCEPT ![h.path] = @ \o lines]]

\* fileObj.close()
Close(st, h) ==
    [st EXCEPT !.open = @ \ {h}, !.fs = Append(@, Event("close", h))]

\* The last reference to the file object is dropped without close(): the
\* interpreter closes it at once when it counts references, else it stays open.
Drop(st, h, gc) == IF gc THEN Close(st, h) ELSE st

\* os.remove(path)
Remove(st, path) ==
    [st EXCEPT !.disk = [q \in DOMAIN @ \ {path} |-> @[q]],
               !.fs = Append(@, Event("remove", Handle(0, 0, path, "")))]

Raise(st, exc) == [st EXCEPT !.error = exc]

----------------------------------------------------------------------------
(* NoriWritter.write_mesh_objs *)

\* Line 234
HaveMaterial(mesh) == Len(mesh.slots) # 0 /\ mesh.slots[1] # ""

\* Lines 238 and 272
FileObjPath(name) == name \o ".obj"

FileObjMatPath(name, slotName) == name \o "_" \o slotName \o ".obj"

\* What a call of write_face that returned r leaves: its lines in the file h,
\* the call recorded in st.writes, and the exception if it raised.
WriteFaceResult(st, h, idMat, r) ==
    [st EXCEPT !.disk = [@ EXCEPT ![h.path] = @ \o FLines(r.lines)],
               !.writes = Append(@, [idMat |-> idMat, path |-> h.path,
                                     lines |-> r.lines, polys |-> r.polys,
                                     visited |-> r.visited]),
               !.error = IF r.raised THEN "TypeError" ELSE @]

\* One call of write_face on the open file h.
CallWriteFace(st, h, mesh, exportUV, exportNormal, idMat) ==
    WriteFaceResult(st, h, idMat,
                    write_face(mesh.polygons, exportUV, exportNormal, idMat))

\* Line 270: verbose
Verbose(st, text) == [st EXCEPT !.log = Append(@, text)]

\* Lines 274-275: the lines of the file behind src are written to dst.
CopyLines(st, dst, src) == WriteLines(st, dst, st.disk[src.path])

\* Lines 280-284 after write_face.  Line 281 reads slot.material, which is
\* None for a slot without material.
SlotEntry(st, fileObjMat, i, slotName) ==
    IF st.error # "" THEN st
    ELSE IF slotName = "" THEN Raise(st, "AttributeError")
    ELSE Close([st EXCEPT !.elems =
                   Append(@, createMeshEntry(fileObjMat.path, i,
                                             createBSDFEntry(slotName)))],
               fileObjMat)

\* Lines 268-284: the loop body for slot id_mat.
SlotBody(st, i, name, mesh, exportUV, exportNormal, gc, id_mat) ==
    LET slotName == mesh.slots[id_mat + 1]
        fileObjMat == NextHandle(st, i, 1, FileObjMatPath(name, slotName), "w")
        src == NextHandle(st, i, 2, FileObjPath(name), "r")
    IN  SlotEntry(
            CallWriteFace(
                Drop(CopyLines(Open(Open(Verbose(st, "MESH: " \o name \o " BSDF: " \o slotName),
                                         fileObjMat),
                                    src),
                               fileObjMat, src),
                     src, gc),
                fileObjMat, mesh, exportUV, exportNormal, id_mat),
            fileObjMat, i, slotName)

\* Lines 267-284: the loop over the material slots, from slot id_mat on.
RECURSIVE SlotLoop(_, _, _, _, _, _, _, _)
SlotLoop(st, i, name, mesh, exportUV, exportNormal, gc, id_mat) ==
    IF id_mat >= Len(mesh.slots) \/ st.error # ""
    THEN st
    ELSE SlotLoop(SlotBody(st, i, name, mesh, exportUV, exportNormal, gc, id_mat),
                  i, name, mesh, exportUV, exportNormal, gc, id_mat + 1)

\* Line 287, not reached when the loop raised.
RemoveCombined(st, path) == IF st.error # "" THEN st ELSE Remove(st, path)

\* Lines 265-287
WithMaterial(st, fileObj, i, name, mesh, exportUV, exportNormal, gc) ==
    RemoveCombined(SlotLoop(Close(st, fileObj), i, name, mesh,
                            exportUV, exportNormal, gc, 0),
                   fileObj.path)

\* Lines 260-264 after write_face; fileObj is not closed, its last reference
\* goes at the return.
DefaultEntry(st, fileObj, i, gc) ==
    IF st.error # "" THEN st
    ELSE Drop([st EXCEPT !.elems = <<createMeshEntry(fileObj.path, i, DefaultBSDF)>>],
              fileObj, gc)

\* Lines 256-264
WithoutMaterial(st, fileObj, i, name, mesh, exportUV, exportNormal, gc) ==
    DefaultEntry(CallWriteFace(st, fileObj, mesh, exportUV, exportNormal, -1),
                 fileObj, i, gc)

\* The state a call starts from.
EntryState(d, o) ==
    [disk |-> d, open |-> o, fs |-> <<>>, log |-> <<>>, elems |-> <<>>,
     writes |-> <<>>, error |-> ""]

\* write_mesh_objs(mesh) for scene object i called name; gc tells whether the
\* interpreter closes a file object at once when its last reference is dropped.
write_mesh_objs(d, o, i, name, mesh, gc) ==
    LET st == EntryState(d, o)
    IN  IF mesh.polygons = <<>>
        THEN Raise(st, "IndexError")     \* line 232: prevMesh.polygons[0]
        ELSE LET exportNormal == mesh.use_smooth
                 exportUV == exportNormal /\ mesh.uv
                 fileObj == NextHandle(st, i, 1, FileObjPath(name), "w")
                 s1 == Open(st, fileObj)
                 s2 == WriteLines(s1, fileObj,
                                  BaseLines(i, mesh, exportUV, exportNormal))
             IN  IF ~HaveMaterial(mesh)
                 THEN WithoutMaterial(s2, fileObj, i, name, mesh, exportUV, exportNormal, gc)
                 ELSE WithMaterial(s2, fileObj, i, name, mesh, exportUV, exportNormal, gc)

----------------------------------------------------------------------------
(* The scene. *)

\* obj.name of the i-th scene object; the host keeps object names distinct.
ObjNames == <<"A", "A_m", "B", "C", "D", "E">>

\* A scene object: obj.type, obj.data.type of a lamp, obj.parent as the index
\* of the parent in scene.objects (0 for None), and the mesh of a mesh object.
Object(name, type, lamp, parent, data) ==
    [name |-> name, type |-> type, lamp |-> lamp, parent |-> parent, data |-> data]

\* What the i-th object of a scene may be, its meshes drawn from meshes.  The
\* parent of a mesh or an empty is an object listed before it; the exporter
\* never reads the parent of a camera or a lamp.
ObjectsAt(i, meshes) ==
    {Object(ObjNames[i], "CAMERA", "", 0, NoMesh)}
    \cup {Object(ObjNames[i], "LAMP", t, 0, NoMesh) : t \in {"POINT", "SUN"}}
    \cup {Object(ObjNames[i], "EMPTY", "", p, NoMesh) : p \in 0..(i - 1)}
    \cup {Object(ObjNames[i], "MESH", "", p, m) : p \in 0..(i - 1), m \in meshes}

RECURSIVE ScenesOfLen(_, _)
ScenesOfLen(k, meshes) ==
    IF k = 0 THEN {<<>>}
    ELSE {Append(s, o) : s \in ScenesOfLen(k - 1, meshes), o \in ObjectsAt(k, meshes)}

Scenes(n, meshes) == UNION {ScenesOfLen(k, meshes) : k \in 0..n}

\* The meshes of the scenes of Spec, flat shaded: a triangle without material
\* slot, a triangle in the slot "m", a pentagon in the slot "m".
SceneMeshes ==
    {[slots |-> <<>>, polygons |-> <<Poly(<<0, 1, 2>>, 0, Down)>>,
      use_smooth |-> FALSE, uv |-> FALSE],
     [slots |-> <<"m">>, polygons |-> <<Poly(<<0, 1, 2>>, 0, Down)>>,
      use_smooth |-> FALSE, uv |-> FALSE],
     [slots |-> <<"m">>, polygons |-> <<Poly(<<0, 1, 2, 3, 4>>, 0, Down)>>,
      use_smooth |-> FALSE, uv |-> FALSE]}

\* The ascending sequence of the members of a set of integers.
RECURSIVE Sorted(_)
Sorted(S) ==
    IF S = {} THEN <<>>
    ELSE LET m == CHOOSE x \in S : \A y \in S : x <= y
         IN  <<m>> \o Sorted(S \ {m})

MeshOrEmpty(obj) == obj.type \in {"MESH", "EMPTY"}

\* Lines 169-170: mesh.children of type MESH or EMPTY
children_mesh(objs, i) ==
    Sorted({j \in 1..Len(objs) : objs[j].parent = i /\ MeshOrEmpty(objs[j])})

\* write_mesh with the mesh itself written before its children.
RECURSIVE write_mesh_parent_first(_, _)
write_mesh_parent_first(objs, i) ==
    LET ch == children_mesh(objs, i)
    IN  (IF objs[i].type = "MESH" THEN <<i>> ELSE <<>>)
        \o Flatten([k \in 1..Len(ch) |-> write_mesh_parent_first(objs, ch[k])])

\* write_mesh(mesh): the mesh objects it hands to write_mesh_objs, in call order.
RECURSIVE write_mesh(_, _)
write_mesh(objs, i) ==
    LET ch == children_mesh(objs, i)
    IN  Flatten([k \in 1..Len(ch) |-> write_mesh(objs, ch[k])])
        \o (IF objs[i].type = "MESH" THEN <<i>> ELSE <<>>)

\* Lines 120-124: the roots, and the calls of write_mesh_objs they lead to.
RootMeshes(objs) ==
    Sorted({j \in 1..Len(objs) : MeshOrEmpty(objs[j]) /\ objs[j].parent = 0})

MeshCalls(objs) ==
    LET roots == RootMeshes(objs)
    IN  Flatten([k \in 1..Len(roots) |-> write_mesh(objs, roots[k])])

\* Cameras in reverse scene order, so that cameras[0] is the last camera.
CamerasReversed(objs) ==
    Reverse(Sorted({j \in 1..Len(objs) : objs[j].type = "CAMERA"}))

\* Lines 88-89
Cameras(objs) == Sorted({j \in 1..Len(objs) : objs[j].type = "CAMERA"})

\* Lines 101-102
Sources(objs) == Sorted({j \in 1..Len(objs) : objs[j].type = "LAMP"})

----------------------------------------------------------------------------
(* NoriWritter.write *)

\* nb_samples: the default of the operator's property
DefaultSamples == 32

NoCall ==
    [node |-> 0, mesh |-> NoMesh, fs |-> <<>>, elems |-> <<>>, writes |-> <<>>,
     error |-> "", openAtEntry |-> {}]

RunnerIdle ==
    /\ rpc = "off"
    /\ buildHere = FALSE
    /\ rets = <<>>
    /\ calls = <<>>
    /\ passed = 0
    /\ failed = <<>>
    /\ exitCode = -1

ExportStart ==
    /\ pc = "start"
    /\ doc = <<>>
    /\ log = <<>>
    /\ disk = <<>>
    /\ openHandles = {}
    /\ pending = <<>>
    /\ last = NoCall
    /\ error = ""
    /\ written = <<>>

Init ==
    /\ objects \in Scenes(NObj, SceneMeshes)
    /\ exportLight \in BOOLEAN
    /\ ExportStart
    /\ RunnerIdle

\* The scenes of SpecMesh: one mesh object, exported with the default of the
\* export_light property.
MeshScenes ==
    {<<Object(ObjNames[1], "MESH", "", 0, m)>> : m \in Meshes(MaxFaces, MaxSlots)}

InitMesh ==
    /\ objects \in MeshScenes
    /\ exportLight = TRUE
    /\ ExportStart
    /\ RunnerIdle

\* Lines 63-95: the document, the integrator, the sampler and one camera.
Begin ==
    /\ pc = "start"
    /\ LET head == <<Element("integrator", IF exportLight THEN "path_mis" ELSE "av", "", 0, ""),
                     Element("sampler", "independent", "", DefaultSamples, "")>>
           cameras == Cameras(objects)
       IN  IF Len(cameras) = 0
           THEN /\ log' = Append(log, "WARN: No camera to export")
                /\ doc' = head
           ELSE /\ log' = IF Len(cameras) > 1
                          THEN Append(log, "WARN: Does not handle multiple camera, only export the first one")
                          ELSE log
                /\ doc' = Append(head, Element("camera", "perspective", "", cameras[1], ""))
    /\ pc' = "lights"
    /\ UNCHANGED <<objects, exportLight, disk, openHandles,
                   pending, last, error, written, runnerVars>>

\* Lines 103-110: the loop over the light sources.
RECURSIVE LightLoop(_, _, _)
LightLoop(objs, sources, st) ==
    IF sources = <<>> THEN st
    ELSE LET source == objs[Head(sources)]
         IN  LightLoop(objs, Tail(sources),
                IF source.lamp = "POINT"
                THEN [st EXCEPT !.doc = Append(@, Element("emitter", "point", "", Head(sources), ""))]
                ELSE [st EXCEPT !.log = Append(@, "WARN: Light source type (" \o source.lamp \o ") is not supported")])

\* Lines 100-122: the light sources, the meshes directory, the root meshes.
ExportLights ==
    /\ pc = "lights"
    /\ LET r == IF exportLight
                THEN LightLoop(objects, Sources(objects), [doc |-> doc, log |-> log])
                ELSE [doc |-> doc, log |-> log]
       IN  /\ doc' = r.doc
           /\ log' = r.log
    /\ pending' = MeshCalls(objects)
    /\ pc' = "meshes"
    /\ UNCHANGED <<objects, exportLight, disk, openHandles,
                   last, error, written, runnerVars>>

\* Lines 173-177: the appendChild of what write_mesh_objs returned (r) for
\* scene object i; an exception ends the export.
AfterWriteMeshObjs(i, r) ==
    /\ disk' = r.disk
    /\ openHandles' = r.open
    /\ log' = log \o r.log
    /\ last' = [node |-> i, mesh |-> objects[i].data, fs |-> r.fs,
                elems |-> r.elems, writes |-> r.writes, error |-> r.error,
                openAtEntry |-> openHandles]
    /\ error' = r.error
    /\ IF r.error = ""
       THEN /\ doc' = doc \o r.elems
            /\ pending' = Tail(pending)
            /\ pc' = "meshes"
       ELSE /\ doc' = doc
            /\ pending' = pending
            /\ pc' = "aborted"

\* Lines 123-124 and 168-177: the next call of write_mesh_objs.
WriteMeshObjs ==
    /\ pc = "meshes"
    /\ pending # <<>>
    /\ \E gc \in BOOLEAN :
          AfterWriteMeshObjs(Head(pending),
                             write_mesh_objs(disk, openHandles, Head(pending),
                                             objects[Head(pending)].name,
                                             objects[Head(pending)].data, gc))
    /\ UNCHANGED <<objects, exportLight, written, runnerVars>>

\* Line 129: the document is written to filepath.  openHandles holds the
\* handles on mesh files only.
WriteXml ==
    /\ pc = "meshes"
    /\ pending = <<>>
    /\ written' = <<doc>>
    /\ pc' = "done"
    /\ UNCHANGED <<objects, exportLight, doc, log, disk, openHandles,
                   pending, last, error, runnerVars>>

Next ==
    \/ Begin
    \/ ExportLights
    \/ WriteMeshObjs
    \/ WriteXml

Spec == Init /\ [][Next]_vars

SpecMesh == InitMesh /\ [][Next]_vars

----------------------------------------------------------------------------
(* run_tests.py *)

\* Lines 6-13
TEST_SCENES == <<"pa4/tests/test-mesh.xml", "pa4/tests/test-mesh-furnace.xml">>

\* Lines 15-28: each warp type followed by str(p) of its parameter, if any.
TEST_WARPS ==
    << <<"square">>, <<"tent">>, <<"disk">>, <<"uniform_sphere">>,
       <<"uniform_hemisphere">>, <<"cosine_hemisphere">>,
       <<"beckmann", "0.05">>, <<"beckmann", "0.1">>, <<"beckmann", "0.3">> >>

\* What subprocess.call may return: the exit code of the child, or minus the
\* number of the signal that killed it.
ExitCodes == {0, 1, -11}

\* os.path.join of two relative paths, the first neither empty nor ending in "/"
PathJoin(a, b) == a \o "/" \o b

\* Lines 30-37: "." when ./nori is a file, else "build".
find_build_directory(here) == IF here THEN "." ELSE "build"

\* ' '.join(args)
RECURSIVE JoinSpace(_)
JoinSpace(args) ==
    IF args = <<>> THEN ""
    ELSE IF Len(args) = 1 THEN args[1]
    ELSE args[1] \o " " \o JoinSpace(Tail(args))

\* Line 48: the argv of the scene test t
SceneArgs(build_dir, t) == <<PathJoin(build_dir, "nori"), PathJoin("scenes", t)>>

\* Lines 55-60: the argv of the warp test w
WarpArgs(build_dir, w) == <<PathJoin(build_dir, "warptest")>> \o w

\* Passes with a child killed by a signal counted as passed.
PassesUnlessPositive(ret) == ret <= 0

\* Lines 49-52 and 62-65: what a return code does to passed.
Passes(ret) == ret = 0

RunnerInit ==
    /\ rpc = "scenes"
    /\ buildHere \in BOOLEAN
    /\ rets = <<>>
    /\ calls = <<>>
    /\ passed = 0
    /\ failed = <<>>
    /\ exitCode = -1

ExportIdle ==
    /\ objects = <<>>
    /\ exportLight = FALSE
    /\ pc = "off"
    /\ doc = <<>>
    /\ log = <<>>
    /\ disk = <<>>
    /\ openHandles = {}
    /\ pending = <<>>
    /\ last = NoCall
    /\ error = ""
    /\ written = <<>>

InitRunner ==
    /\ RunnerInit
    /\ ExportIdle

\* Lines 46-52: one pass of the loop over the scenes.
RunScene ==
    /\ rpc = "scenes"
    /\ Len(calls) < Len(TEST_SCENES)
    /\ \E ret \in ExitCodes :
          LET t == TEST_SCENES[Len(calls) + 1]
          IN  /\ calls' = Append(calls, SceneArgs(find_build_directory(buildHere), t))
              /\ rets' = Append(rets, ret)
              /\ IF Passes(ret)
                 THEN passed' = passed + 1 /\ failed' = failed
                 ELSE passed' = passed /\ failed' = Append(failed, t)
    /\ rpc' = IF Len(calls') = Len(TEST_SCENES) THEN "warps" ELSE "scenes"
    /\ UNCHANGED <<buildHere, exitCode, exportVars>>

\* Lines 54-65: one pass of the loop over the warps.
RunWarp ==
    /\ rpc = "warps"
    /\ Len(calls) < Len(TEST_SCENES) + Len(TEST_WARPS)
    /\ \E ret \in ExitCodes :
          LET w == TEST_WARPS[Len(calls) - Len(TEST_SCENES) + 1]
              args == WarpArgs(find_build_directory(buildHere), w)
          IN  /\ calls' = Append(calls, args)
              /\ rets' = Append(rets, ret)
              /\ IF Passes(ret)
                 THEN passed' = passed + 1 /\ failed' = failed
                 ELSE passed' = passed /\ failed' = Append(failed, JoinSpace(args))
    /\ UNCHANGED <<rpc, buildHere, exitCode, exportVars>>

\* Lines 41 and 67-78: the verdict of test_warps_and_scenes.
Verdict(total, npassed) == ~(npassed < total)

\* Lines 67-84: the report, and the exit of the process.
Report ==
    /\ rpc = "warps"
    /\ Len(calls) = Len(TEST_SCENES) + Len(TEST_WARPS)
    /\ exitCode' = IF Verdict(Len(TEST_SCENES) + Len(TEST_WARPS), passed) THEN 0 ELSE 1
    /\ rpc' = "exited"
    /\ UNCHANGED <<buildHere, rets, calls, passed, failed, exportVars>>

NextRunner ==
    \/ RunScene
    \/ RunWarp
    \/ Report

SpecRunner == InitRunner /\ [][NextRunner]_vars

----------------------------------------------------------------------------
(* What the claims speak about. *)

\* The latest call of write_mesh_objs has returned (no exception).
Returned == last.node # 0 /\ last.error = ""

LastName == objects[last.node].name

\* The "f" lines of the file at path, <<>> when there is no such file.
FaceRecords(path) ==
    IF path \in DOMAIN disk
    THEN SelectSeq(disk[path], LAMBDA l : l.kind = "f")
    ELSE <<>>

\* The triangles the faces of a mesh need: one per triangle, two per
\* quadrilateral.
RECURSIVE TriangleCount(_)
TriangleCount(polygons) ==
    IF polygons = <<>> THEN 0
    ELSE (IF Len(Head(polygons).vertices) = 3 THEN 1
          ELSE IF Len(Head(polygons).vertices) = 4 THEN 2 ELSE 0)
         + TriangleCount(Tail(polygons))

OnlyTrisAndQuads(mesh) ==
    \A k \in 1..Len(mesh.polygons) : Len(mesh.polygons[k].vertices) \in {3, 4}

\* The paths the latest call opened for writing that are files on disk.
FilesLeft ==
    {last.fs[k].path : k \in {n \in 1..Len(last.fs) :
                                 last.fs[n].op = "open" /\ last.fs[n].mode = "w"}}
    \cap DOMAIN disk

\* The faces held by the file at path after the latest call: those of the
\* latest write_face call on that path, if the file is still there.
FacesInFile(path) ==
    IF path \in DOMAIN disk /\ \E n \in 1..Len(last.writes) : last.writes[n].path = path
    THEN LET n == CHOOSE n \in 1..Len(last.writes) :
                     /\ last.writes[n].path = path
                     /\ \A q \in (n + 1)..Len(last.writes) : last.writes[q].path # path
         IN  Range(last.writes[n].polys)
    ELSE {}

----------------------------------------------------------------------------
(* C1: when write_mesh_objs returns for a mesh it treats as having no       *)
(* material, the one mesh file it wrote holds a face record for every face: *)
(* one per triangle and two per quadrilateral, with 1-based indices and no  *)
(* slash suffix when neither UVs nor normals are exported.                  *)
C1_NoMaterialFileHoldsEveryFace ==
    (Returned /\ ~HaveMaterial(last.mesh) /\ OnlyTrisAndQuads(last.mesh)) =>
        LET f == FaceRecords(FileObjPath(LastName))
        IN  /\ Len(f) = TriangleCount(last.mesh.polygons)
            /\ (~last.mesh.use_smooth) =>
                  \A k \in 1..Len(f) : \A n \in 1..3 :
                      /\ Len(f[k].tokens[n]) = 1
                      /\ f[k].tokens[n][1] \in 1..NumVertices

----------------------------------------------------------------------------
(* C2: when write_mesh_objs returns for a mesh with N >= 1 material slots,  *)
(* whatever the slot names, it has left exactly N distinct mesh files on    *)
(* disk for the mesh and returns exactly N mesh elements.                   *)
C2_NSlotsGiveNFilesAndNElements ==
    (Returned /\ Len(last.mesh.slots) >= 1) =>
        /\ Cardinality(FilesLeft) = Len(last.mesh.slots)
        /\ Len(last.elems) = Len(last.mesh.slots)

----------------------------------------------------------------------------
(* Faces and slots. *)

IndicesNameSlots(mesh) ==
    \A k \in 1..Len(mesh.polygons) :
        mesh.polygons[k].material_index < Len(mesh.slots)

(* C3: when write_mesh_objs returns for a mesh with N >= 1 material slots   *)
(* whose faces all have the index of one of the slots, every face of the    *)
(* mesh is in the file of the slot whose index is the face's material_index *)
(* and in the file of no other slot.                                        *)
C3_SlotFilesPartitionFaces ==
    (Returned /\ Len(last.mesh.slots) >= 1 /\ IndicesNameSlots(last.mesh)) =>
        \A k \in 1..Len(last.mesh.polygons) :
            \A j \in 0..(Len(last.mesh.slots) - 1) :
                (k \in FacesInFile(FileObjMatPath(LastName, last.mesh.slots[j + 1])))
                <=> (last.mesh.polygons[k].material_index = j)

----------------------------------------------------------------------------
(* The triangles write_face wrote. *)

\* The 0-based vertex indices of an "f" line, in written order.
WrittenOrder(line) == [n \in 1..3 |-> line[n][1] - 1]

\* cross(v1 - v0, v2 - v0) of the triangle vert
WindingNormal(vert) ==
    Cross(Sub(Co(vert[2]), Co(vert[1])), Sub(Co(vert[3]), Co(vert[1])))

\* Line n of the w-th write_face call of the latest write_mesh_objs call
\* agrees with the normal the host supplies for its face.
AgreesWithHost(w, n) ==
    Dot(WindingNormal(WrittenOrder(last.writes[w].lines[n])),
        last.mesh.polygons[last.writes[w].polys[n]].normal) >= 0

----------------------------------------------------------------------------
(* C4 as claimed: every triangle write_face writes, with or without vertex  *)
(* normals exported, has cross(v1 - v0, v2 - v0) of its written vertex      *)
(* order in the half-space of the host-supplied face normal.                *)
C4_EveryWrittenTriangleAgrees ==
    \A w \in 1..Len(last.writes) :
        \A n \in 1..Len(last.writes[w].lines) : AgreesWithHost(w, n)

(* C4 as amended: every triangle write_face writes for a mesh whose vertex  *)
(* normals are not exported (polygons[0].use_smooth is false) has           *)
(* cross(v1 - v0, v2 - v0) of its written vertex order in the half-space of *)
(* the host-supplied face normal.                                           *)
C4_FlatTrianglesAgree ==
    (~last.mesh.use_smooth) =>
        \A w \in 1..Len(last.writes) :
            \A n \in 1..Len(last.writes[w].lines) : AgreesWithHost(w, n)

\* A flat-shaded quadrilateral was written and its first triangle reversed.
C4_Witness ==
    /\ Returned
    /\ ~last.mesh.use_smooth
    /\ \E w \in 1..Len(last.writes) : \E n \in 1..Len(last.writes[w].lines) :
          LET poly == last.mesh.polygons[last.writes[w].polys[n]]
          IN  /\ Len(poly.vertices) = 4
              /\ WrittenOrder(last.writes[w].lines[n])
                    = <<poly.vertices[3], poly.vertices[2], poly.vertices[1]>>

----------------------------------------------------------------------------
(* C5: when the document has been written, no mesh the export reached has a *)
(* face whose vertex count is neither 3 nor 4 (such a face aborts the       *)
(* export), with or without material slots and whatever its material_index. *)
C5_BadFaceAborts ==
    (written # <<>>) =>
        \A i \in Range(MeshCalls(objects)) : OnlyTrisAndQuads(objects[i].data)

----------------------------------------------------------------------------
(* The triangles of one face. *)

UpToReversal(vert, t) == vert = t \/ vert = <<t[3], t[2], t[1]>>

\* The triangles the w-th write_face call wrote for face k, in written order.
TrianglesFor(w, k) ==
    LET at == {n \in 1..Len(last.writes[w].lines) : last.writes[w].polys[n] = k}
        idx == Sorted(at)
    IN  [n \in 1..Len(idx) |-> WrittenOrder(last.writes[w].lines[idx[n]])]

(* C6: for every face write_face processes, a quadrilateral (v0,v1,v2,v3)   *)
(* yields exactly two triangles, (v0,v1,v2) and (v2,v3,v0) in this order,   *)
(* each possibly reversed, and a triangle yields exactly one.               *)
C6_QuadsSplitInTwo ==
    \A w \in 1..Len(last.writes) :
        \A k \in Range(last.writes[w].visited) :
            LET v == last.mesh.polygons[k].vertices
                t == TrianglesFor(w, k)
            IN  /\ Len(v) = 4 =>
                      /\ Len(t) = 2
                      /\ UpToReversal(t[1], <<v[1], v[2], v[3]>>)
                      /\ UpToReversal(t[2], <<v[3], v[4], v[1]>>)
                /\ Len(v) = 3 =>
                      /\ Len(t) = 1
                      /\ UpToReversal(t[1], v)

\* write_face has processed a quadrilateral and a triangle in one call.
C6_Witness ==
    /\ Returned
    /\ \E w \in 1..Len(last.writes) :
          /\ \E k \in Range(last.writes[w].visited) :
                Len(last.mesh.polygons[k].vertices) = 4
          /\ \E k \in Range(last.writes[w].visited) :
                Len(last.mesh.polygons[k].vertices) = 3

----------------------------------------------------------------------------
(* The camera of the document. *)

CameraObjects == {j \in 1..Len(objects) : objects[j].type = "CAMERA"}

CameraElements(d) == {k \in 1..Len(d) : d[k].tag = "camera"}

Printed(text) == \E k \in 1..Len(log) : log[k] = text

OneCameraIn(d) ==
    IF CameraObjects = {}
    THEN CameraElements(d) = {} /\ Printed("WARN: No camera to export")
    ELSE /\ Cardinality(CameraElements(d)) = 1
         /\ \A k \in CameraElements(d) :
               /\ d[k].node \in CameraObjects
               /\ \A j \in CameraObjects : d[k].node <= j
         /\ Cardinality(CameraObjects) > 1 =>
               Printed("WARN: Does not handle multiple camera, only export the first one")

(* C7: whatever the number of cameras, the document holds no camera element *)
(* and a warning was printed when the scene has no camera, and otherwise    *)
(* exactly one camera element, made from the first camera in scene object   *)
(* order, with a warning when there are several; the export goes on to the  *)
(* lights, and only an exception of write_mesh_objs keeps the document from *)
(* being written.                                                           *)
C7_AtMostOneCamera ==
    /\ pc \notin {"start", "off"} => OneCameraIn(doc)
    /\ pc = "lights" => error = ""
    /\ pc = "aborted" => (last.node # 0 /\ last.error # "")
    /\ written # <<>> => (written[1] = doc /\ OneCameraIn(written[1]))

\* The document of a scene with several cameras, the first of them not the
\* first object, has been written.
C7_Witness ==
    /\ pc = "done"
    /\ Cardinality(CameraObjects) > 1
    /\ 1 \notin CameraObjects
    /\ Cardinality(CameraElements(written[1])) = 1

----------------------------------------------------------------------------
(* The file handles of a call. *)


\* The handles open just before the n-th file operation of the latest call.
RECURSIVE OpenBefore(_)
OpenBefore(n) ==
    IF n <= 1 THEN last.openAtEntry
    ELSE LET e == last.fs[n - 1]
             h == [id |-> e.id, path |-> e.path, mode |-> e.mode]
         IN  IF e.op = "open" THEN OpenBefore(n - 1) \cup {h}
             ELSE IF e.op = "close" THEN OpenBefore(n - 1) \ {h}
             ELSE OpenBefore(n - 1)

(* C9: when write_mesh_objs returns, every handle it opened, on the mesh    *)
(* file, on a slot file or for reading the combined file, was closed before *)
(* the next mesh file was opened, every handle on the combined file was     *)
(* closed before the file was removed, and none is open any more.           *)
C9_HandlesClosedInTime ==
    Returned =>
        /\ \A n \in 1..Len(last.fs) :
              /\ (last.fs[n].op = "open" /\ last.fs[n].mode = "w") => OpenBefore(n) = {}
              /\ last.fs[n].op = "remove" =>
                    \A h \in OpenBefore(n) : h.path # last.fs[n].path
        /\ openHandles = {}

----------------------------------------------------------------------------
(* The order of the mesh elements. *)

\* The positions in the document of the mesh elements made from object i.
MeshElements(i) == {k \in 1..Len(doc) : doc[k].tag = "mesh" /\ doc[k].node = i}

\* d lies below p, every object between them a mesh or an empty.
RECURSIVE Below(_, _)
Below(p, d) ==
    LET q == objects[d].parent
    IN  /\ q # 0
        /\ \/ q = p
           \/ MeshOrEmpty(objects[q]) /\ Below(p, q)

\* The root above object i, 0 when an object above it is no mesh or empty.
RECURSIVE RootOf(_)
RootOf(i) ==
    IF ~MeshOrEmpty(objects[i]) THEN 0
    ELSE IF objects[i].parent = 0 THEN i
    ELSE RootOf(objects[i].parent)

MeshObjects == {j \in 1..Len(objects) : objects[j].type = "MESH"}

\* Top-level roots are handled in scene object order.
RootsInSceneOrder ==
    \A x \in MeshObjects : \A y \in MeshObjects :
        (RootOf(x) # 0 /\ RootOf(x) < RootOf(y)) =>
            \A a \in MeshElements(x) : \A b \in MeshElements(y) : a < b

(* C10 as claimed: the mesh elements of a mesh node come before the mesh    *)
(* elements of each of its mesh descendants (pre-order), and top-level      *)
(* roots are handled in scene object order.                                 *)
C10_PreOrder ==
    /\ \A p \in MeshObjects : \A d \in MeshObjects :
          Below(p, d) =>
              \A a \in MeshElements(p) : \A b \in MeshElements(d) : a < b
    /\ RootsInSceneOrder

(* C10 as amended: the mesh elements of a mesh node come after the mesh     *)
(* elements of all of its mesh descendants (post-order), which are in the   *)
(* document whenever the node's are, and top-level roots are handled in     *)
(* scene object order.                                                      *)
C10_PostOrder ==
    /\ \A p \in MeshObjects : \A d \in MeshObjects :
          (Below(p, d) /\ MeshElements(p) # {}) =>
              /\ MeshElements(d) # {}
              /\ \A a \in MeshElements(p) : \A b \in MeshElements(d) : b < a
    /\ RootsInSceneOrder

\* The document holds the elements of a mesh and of a mesh below an empty
\* below it.
C10_Witness ==
    /\ pc = "done"
    /\ \E p \in MeshObjects : \E d \in MeshObjects :
          /\ Below(p, d)
          /\ objects[objects[d].parent].type = "EMPTY"
          /\ MeshElements(p) # {}
          /\ MeshElements(d) # {}

----------------------------------------------------------------------------
(* The sub-invocations of the runner. *)

NumTests == Len(TEST_SCENES) + Len(TEST_WARPS)

\* The n-th sub-invocation runs the n-th test of the two lists.
RunsTest(n) ==
    IF n <= Len(TEST_SCENES)
    THEN /\ Len(calls[n]) = 2
         /\ calls[n][1] \in {"./nori", "build/nori"}
         /\ calls[n][2] = "scenes/" \o TEST_SCENES[n]
    ELSE /\ calls[n][1] \in {"./warptest", "build/warptest"}
         /\ Tail(calls[n]) = TEST_WARPS[n - Len(TEST_SCENES)]

\* The entries of failed that the sub-invocations n.. leave, from entry f on.
RECURSIVE FailedMatches(_, _)
FailedMatches(n, f) ==
    IF n > Len(rets) THEN f = Len(failed) + 1
    ELSE IF rets[n] = 0 THEN FailedMatches(n + 1, f)
    ELSE /\ f <= Len(failed)
         /\ failed[f] = (IF n <= Len(TEST_SCENES) THEN TEST_SCENES[n]
                         ELSE JoinSpace(calls[n]))
         /\ FailedMatches(n + 1, f + 1)

(* C8: the runner invokes every scene test and then every warp test once,   *)
(* in list order, whatever the earlier ones returned; passed counts the     *)
(* sub-invocations that returned 0, failed lists exactly those that         *)
(* returned nonzero, in order; the runner exits with 0 when all passed and  *)
(* with 1 otherwise.                                                        *)
C8_RunnerAggregates ==
    /\ Len(calls) = Len(rets)
    /\ \A n \in 1..Len(calls) : RunsTest(n)
    /\ passed = Cardinality({n \in 1..Len(rets) : rets[n] = 0})
    /\ FailedMatches(1, 1)
    /\ rpc = "exited" =>
          /\ Len(calls) = NumTests
          /\ exitCode \in {0, 1}
          /\ exitCode = 0 <=> \A n \in 1..Len(rets) : rets[n] = 0
    /\ rpc \in {"scenes", "warps"} => exitCode = -1

\* The runner has exited with 1 after the first scene test failed, a warp
\* test was killed by a signal and the last test passed.
C8_Witness ==
    /\ rpc = "exited"
    /\ exitCode = 1
    /\ rets[1] = 1
    /\ rets[NumTests - 1] < 0
    /\ rets[NumTests] = 0
    /\ Len(failed) = 2

----------------------------------------------------------------------------
(* The files the document names. *)

\* The mesh elements of document d made for scene object i, in document order.
ElementsOf(d, i) == SelectSeq(d, LAMBDA e : e.tag = "mesh" /\ e.node = i)

\* The file write_mesh_objs makes for the k-th element of mesh object i: the
\* file of the mesh when it has no material, else that of its k-th slot.
PathWrittenFor(i, k) ==
    IF HaveMaterial(objects[i].data)
    THEN FileObjMatPath(objects[i].name, objects[i].data.slots[k])
    ELSE FileObjPath(objects[i].name)

\* The lines write_mesh_objs writes to that file: the vertex data of the
\* mesh, then what write_face writes for the slot (for idMat = -1 when the
\* mesh has no material).
ContentWrittenFor(i, k) ==
    LET mesh == objects[i].data
        exportNormal == mesh.use_smooth
        exportUV == exportNormal /\ mesh.uv
        idMat == IF HaveMaterial(mesh) THEN k - 1 ELSE -1
    IN  BaseLines(i, mesh, exportUV, exportNormal)
        \o FLines(write_face(mesh.polygons, exportUV, exportNormal, idMat).lines)

\* The k-th mesh element of object i in d names a file that is on disk and
\* holds what was written for it.
FileIntact(d, i, k) ==
    /\ ElementsOf(d, i)[k].file = "meshes/" \o PathWrittenFor(i, k)
    /\ PathWrittenFor(i, k) \in DOMAIN disk
    /\ disk[PathWrittenFor(i, k)] = ContentWrittenFor(i, k)

(* C11: after a successful export (the names of the scene objects are       *)
(* pairwise distinct), every mesh element of the written document names a   *)
(* file meshes/<file> that is on disk and holds the lines written for that  *)
(* mesh, or mesh and slot: none was deleted with a combined file or         *)
(* overwritten by the export of another mesh or slot.                       *)
C11_MeshFilesIntact ==
    (pc = "done" /\ \A x \in 1..Len(objects) : \A y \in 1..Len(objects) :
                        x # y => objects[x].name # objects[y].name) =>
        \A i \in MeshObjects :
            \A k \in 1..Len(ElementsOf(written[1], i)) :
                FileIntact(written[1], i, k)

====
